---- MODULE Spec2Model ----
(***************************************************************************)
(* The scanner of healexer (src/healexer/src/lib.rs): tokenize walks the   *)
(* input once with a peekable character iterator and local row / col       *)
(* counters, pushing tokens on a local vector.  One action models one      *)
(* iteration of the main `while let Some(char) = chars.next()` loop, i.e.  *)
(* one arm of the `match char`, inner loops included; Finish models the    *)
(* push of Eof and the return.                                             *)
(***************************************************************************)
EXTENDS Integers, Sequences, FiniteSets, TLC

VARIABLES
    input,    \* the characters of the String handed to tokenize
    pos,      \* how many characters the iterator `chars` has yielded
    row,      \* local `row`
    col,      \* local `col`
    output,   \* local `output`; the returned vector once pc = "done"
    starts,   \* history: for each pushed token the index in input of the
              \* character the main loop dispatched on when it was pushed
    pc,       \* "scan" in the main loop, "done" returned, "panic" aborted
    err       \* the panic raised, if any

vars == <<input, pos, row, col, output, starts, pc, err>>

(***************************************************************************)
(* Bounds of the input space.                                              *)
(***************************************************************************)
MaxLen == 3     \* every string over Chars up to this length is an input
MaxOps == 2     \* operator lexemes joined by single spaces
MaxBody == 2    \* characters between an opener and its closer

(***************************************************************************)
(* Characters.  A character is a one-character string; NoChar is the None  *)
(* of Option<char>.                                                        *)
(***************************************************************************)
NoChar == ""
Letters == {"a", "b"}
Digits == {"1", "2"}
Quote == "\""

IsAsciiAlphabetic(c) == c \in Letters
IsAsciiDigit(c) == c \in Digits
IsAsciiAlphanumeric(c) == IsAsciiAlphabetic(c) \/ IsAsciiDigit(c)

Chars ==
    {" ", "\t", "\n", "a", "_", "1", Quote, "(", ")", "{", "}",
     "<", ">", "+", "-", "*", "/", "=", "!", "|", "&", "^", "%", "@"}

Strings(S, n) == UNION {[1..k -> S] : k \in 0..n}

(***************************************************************************)
(* Position and Token.  Tokens without a payload carry val = <<>>.         *)
(***************************************************************************)
Position(start, end) == [start |-> start, end |-> end]

Token(kind, position, val) == [kind |-> kind, pos |-> position, val |-> val]

\* Position{ start: (row, col), end: (row, col) }
At(r, c) == Position(<<r, c>>, <<r, c>>)

\* Position{ start: (row, col), end: (row + n, col + n) }
Plus(r, c, n) == Position(<<r, c>>, <<r + n, c + n>>)

NoError == [kind |-> "none", row |-> 0, col |-> 0, ch |-> NoChar]

Panic(kind, r, c, ch) == [kind |-> kind, row |-> r, col |-> c, ch |-> ch]

\* chars.peek() after p characters were yielded
Peek(p) == IF p < Len(input) THEN input[p + 1] ELSE NoChar

\* the character the main loop's chars.next() yields
Cur == input[pos + 1]

InLoop == pc = "scan" /\ pos < Len(input)

(***************************************************************************)
(* Inputs.                                                                 *)
(***************************************************************************)
MultiOps ==
    << <<"-", ">">>, <<"=", ">">>, <<"=", "=">>, <<"<", "=">>, <<">", "=">>,
       <<"+", "=">>, <<"-", "=">>, <<"*", "=">>, <<"/", "=">>, <<"%", "=">>,
       <<">", ">", "=">>, <<"<", "<", "=">>, <<">", ">">>, <<"<", "<">>,
       <<"!", "=">>, <<"|", "=">>, <<"&", "=">>, <<"^", "=">>,
       <<"+", "+">>, <<"-", "-">>, <<"|", "|">>, <<"&", "&">> >>

\* the Token kinds of MultiOps, in the same order
MultiKinds ==
    <<"Arrow", "FatArrow", "EqEq", "LtEq", "GtEq", "AddEq", "SubEq", "MulEq",
      "DivEq", "ModEq", "RShiftEq", "LShiftEq", "RShift", "LShift", "NotEq",
      "OrEq", "AndEq", "XorEq", "AddAdd", "SubSub", "OrOr", "AndAnd">>

\* the single-character operators and their Token kinds
SingleOps ==
    << <<"=">>, <<"<">>, <<">">>, <<"+">>, <<"-">>, <<"*">>, <<"/">>,
       <<"%">>, <<"!">>, <<"|">>, <<"&">>, <<"^">> >>
SingleKinds ==
    <<"Eq", "Lt", "Gt", "Add", "Sub", "Mul", "Div", "Mod", "Not", "Or",
      "And", "Xor">>

\* every operator lexeme with the kind of its token
OperatorTable ==
    {[lex |-> MultiOps[i], kind |-> MultiKinds[i]] : i \in 1..Len(MultiOps)}
        \cup {[lex |-> SingleOps[i], kind |-> SingleKinds[i]] :
                 i \in 1..Len(SingleOps)}

RECURSIVE JoinOps(_)
JoinOps(ix) ==
    IF Len(ix) = 0 THEN <<>>
    ELSE IF Len(ix) = 1 THEN MultiOps[ix[1]]
    ELSE MultiOps[ix[1]] \o <<" ">> \o JoinOps(Tail(ix))

\* the input of tests::operators
TestOperatorsInput == JoinOps([i \in 1..Len(MultiOps) |-> i])

OperatorInputs ==
    {JoinOps(ix) : ix \in Strings(1..Len(MultiOps), MaxOps)}
        \cup {TestOperatorsInput}

Openers == { <<"/", "*">>, <<"/", "/">>, <<Quote>> }
Closers == { <<>>, <<"*", "/">>, <<"\n">>, <<Quote>> }
BodyChars == {"a", " ", "\n", "*", "/", Quote, "@", "\\"}
Before == { <<>>, <<"1", " ">>, <<"a">> }
After == { <<>>, <<" ", "2">>, <<"b">> }

DelimitedInputs ==
    {b \o o \o m \o c \o a :
        b \in Before, o \in Openers, m \in Strings(BodyChars, MaxBody),
        c \in Closers, a \in After}

\* inputs with a digit run before letters, a line break between tokens, a
\* line comment and a block comment between two numbers
Examples ==
    { <<"1", "2", "a", "b">>,
      <<"a", "\n", "b">>,
      <<"1", " ", "/", "/", " ", "a", "b", "\n", "2">>,
      <<"1", " ", "/", "*", " ", "a", "\n", "b", " ", "*", "/", " ", "2">> }

Inputs ==
    Strings(Chars, MaxLen) \cup OperatorInputs \cup DelimitedInputs
        \cup Examples

(***************************************************************************)
(* Init: the locals of tokenize before the first iteration.                *)
(***************************************************************************)
Init ==
    /\ input \in Inputs
    /\ pos = 0
    /\ row = 1
    /\ col = 1
    /\ output = <<>>
    /\ starts = <<>>
    /\ pc = "scan"
    /\ err = NoError

\* output.push(tok) in the arm that dispatched on input[pos + 1]
Push(tok) ==
    /\ output' = Append(output, tok)
    /\ starts' = Append(starts, pos + 1)

\* panic!: the call unwinds, the local vector is dropped, nothing is returned
Abort(e) ==
    /\ pc' = "panic"
    /\ err' = e
    /\ output' = <<>>
    /\ starts' = <<>>

(***************************************************************************)
(* ' ' | '\n' | '\t'                                                       *)
(***************************************************************************)
\* the whitespace arm pushing a token for each line break
WhitespaceKeepsNewline ==
    /\ InLoop
    /\ Cur \in {" ", "\n", "\t"}
    /\ pos' = pos + 1
    /\ row' = IF Cur = "\n" THEN row + 1 ELSE row
    /\ col' = (IF Cur = "\n" THEN 1 ELSE col) + 1
    /\ IF Cur = "\n"
       THEN Push(Token("Newline", At(row, col), <<>>))
       ELSE UNCHANGED <<output, starts>>
    /\ UNCHANGED <<input, pc, err>>

Whitespace ==
    /\ InLoop
    /\ Cur \in {" ", "\n", "\t"}
    /\ pos' = pos + 1
    /\ row' = IF Cur = "\n" THEN row + 1 ELSE row
    /\ col' = (IF Cur = "\n" THEN 1 ELSE col) + 1
    /\ UNCHANGED <<input, output, starts, pc, err>>

(***************************************************************************)
(* Identifier and NumLiteral: the peek loops.  Each returns the number of  *)
(* characters yielded when the loop ends.                                  *)
(***************************************************************************)
\* the identifier loop stopping at a digit
RECURSIVE IdentLoopLettersOnly(_)
IdentLoopLettersOnly(p) ==
    IF Peek(p) = NoChar THEN p
    ELSE IF ~IsAsciiAlphabetic(Peek(p)) /\ Peek(p) # "_" THEN p
    ELSE IdentLoopLettersOnly(p + 1)

RECURSIVE IdentLoop(_)
IdentLoop(p) ==
    IF Peek(p) = NoChar THEN p
    ELSE IF ~IsAsciiAlphanumeric(Peek(p)) /\ Peek(p) # "_" THEN p
    ELSE IdentLoop(p + 1)

RECURSIVE NumLoop(_)
NumLoop(p) ==
    IF Peek(p) = NoChar THEN p
    ELSE IF ~IsAsciiDigit(Peek(p)) THEN p
    ELSE NumLoop(p + 1)

Identifier ==
    /\ InLoop
    /\ IsAsciiAlphabetic(Cur) \/ Cur = "_"
    /\ LET e == IdentLoop(pos + 1)
           c == col + (e - (pos + 1))
       IN /\ Push(Token("Identifier", Position(<<row, col>>, <<row, c>>),
                        SubSeq(input, pos + 1, e)))
          /\ pos' = e
          /\ col' = c + 1
    /\ UNCHANGED <<input, row, pc, err>>

NumLiteral ==
    /\ InLoop
    /\ IsAsciiDigit(Cur)
    /\ LET e == NumLoop(pos + 1)
           c == col + (e - (pos + 1))
       IN /\ Push(Token("NumLiteral", Position(<<row, col>>, <<row, c>>),
                        SubSeq(input, pos + 1, e)))
          /\ pos' = e
          /\ col' = c + 1
    /\ UNCHANGED <<input, row, pc, err>>

(***************************************************************************)
(* '"': the loop takes every character up to and including the next '"'.   *)
(***************************************************************************)
\* StrLoop taking the end of the input for a closing quote
RECURSIVE StrLoopEndCloses(_, _, _)
StrLoopEndCloses(p, c, val) ==
    IF Peek(p) = NoChar
        THEN [terminated |-> TRUE, pos |-> p, col |-> c, val |-> val]
    ELSE IF Peek(p) = Quote
        THEN [terminated |-> TRUE, pos |-> p + 1, col |-> c + 1, val |-> val]
    ELSE StrLoopEndCloses(p + 1, c + 1, Append(val, Peek(p)))

\* the string loop treating a backslash as an escape: the character after
\* it is payload even when it is a quote
RECURSIVE StrLoopEscapes(_, _, _)
StrLoopEscapes(p, c, val) ==
    IF Peek(p) = NoChar
        THEN [terminated |-> FALSE, pos |-> p, col |-> c, val |-> val]
    ELSE IF Peek(p) = Quote
        THEN [terminated |-> TRUE, pos |-> p + 1, col |-> c + 1, val |-> val]
    ELSE IF Peek(p) = "\\" /\ Peek(p + 1) # NoChar
        THEN StrLoopEscapes(p + 2, c + 2, val \o <<Peek(p), Peek(p + 1)>>)
    ELSE StrLoopEscapes(p + 1, c + 1, Append(val, Peek(p)))

RECURSIVE StrLoop(_, _, _)
StrLoop(p, c, val) ==
    IF Peek(p) = NoChar
        THEN [terminated |-> FALSE, pos |-> p, col |-> c, val |-> val]
    ELSE IF Peek(p) = Quote
        THEN [terminated |-> TRUE, pos |-> p + 1, col |-> c + 1, val |-> val]
    ELSE StrLoop(p + 1, c + 1, Append(val, Peek(p)))

StrLiteral ==
    /\ InLoop
    /\ Cur = Quote
    /\ LET s == StrLoop(pos + 1, col, <<>>)
       IN IF ~s.terminated
          THEN /\ Abort(Panic("string literal not terminated", row, s.col, NoChar))
               /\ pos' = s.pos
               /\ col' = s.col
          ELSE /\ Push(Token("StrLiteral",
                             Position(<<row, col>>, <<row, s.col>>), s.val))
               /\ pos' = s.pos
               /\ col' = s.col + 1
               /\ UNCHANGED <<pc, err>>
    /\ UNCHANGED <<input, row>>

(***************************************************************************)
(* '(' ')' '{' '}'                                                         *)
(***************************************************************************)
DelimiterKind(c) ==
    CASE c = "(" -> "LParen"
      [] c = ")" -> "RParen"
      [] c = "{" -> "LBrace"
      [] c = "}" -> "RBrace"

Delimiter ==
    /\ InLoop
    /\ Cur \in {"(", ")", "{", "}"}
    /\ Push(Token(DelimiterKind(Cur), At(row, col), <<>>))
    /\ pos' = pos + 1
    /\ col' = col + 1
    /\ UNCHANGED <<input, row, pc, err>>

(***************************************************************************)
(* The operator arms.  Each returns the token it pushes and the number of  *)
(* characters yielded once the arm is through; p counts the characters     *)
(* yielded so far (the operator's first character included).               *)
(***************************************************************************)
Taken(tok, p) == [tok |-> tok, pos |-> p]

Op(kind, position) == Token(kind, position, <<>>)

\* LtArm without the second peek for `<<=`
LtArmOnePeek(p, r, c) ==
    IF Peek(p) = "=" THEN Taken(Op("LtEq", Plus(r, c, 1)), p + 1)
    ELSE IF Peek(p) = "<" THEN Taken(Op("LShift", Plus(r, c, 1)), p + 1)
    ELSE Taken(Op("Lt", At(r, c)), p)

LtArm(p, r, c) ==
    IF Peek(p) = "=" THEN Taken(Op("LtEq", Plus(r, c, 1)), p + 1)
    ELSE IF Peek(p) = "<"
        THEN IF Peek(p + 1) = "="
             THEN Taken(Op("LShiftEq", Plus(r, c, 2)), p + 2)
             ELSE Taken(Op("LShift", Plus(r, c, 1)), p + 1)
    ELSE Taken(Op("Lt", At(r, c)), p)

GtArm(p, r, c) ==
    IF Peek(p) = "=" THEN Taken(Op("GtEq", Plus(r, c, 1)), p + 1)
    ELSE IF Peek(p) = ">"
        THEN IF Peek(p + 1) = "="
             THEN Taken(Op("RShiftEq", Plus(r, c, 2)), p + 2)
             ELSE Taken(Op("RShift", Plus(r, c, 1)), p + 1)
    ELSE Taken(Op("Gt", At(r, c)), p)

AddArm(p, r, c) ==
    IF Peek(p) = "+" THEN Taken(Op("AddAdd", Plus(r, c, 1)), p + 1)
    ELSE IF Peek(p) = "=" THEN Taken(Op("AddEq", Plus(r, c, 1)), p + 1)
    ELSE Taken(Op("Add", At(r, c)), p)

\* SubArm without the `->` case
SubArmNoArrow(p, r, c) ==
    IF Peek(p) = "-" THEN Taken(Op("SubSub", Plus(r, c, 1)), p + 1)
    ELSE IF Peek(p) = "=" THEN Taken(Op("SubEq", Plus(r, c, 1)), p + 1)
    ELSE Taken(Op("Sub", At(r, c)), p)

SubArm(p, r, c) ==
    IF Peek(p) = "-" THEN Taken(Op("SubSub", Plus(r, c, 1)), p + 1)
    ELSE IF Peek(p) = "=" THEN Taken(Op("SubEq", Plus(r, c, 1)), p + 1)
    ELSE IF Peek(p) = ">" THEN Taken(Op("Arrow", Plus(r, c, 1)), p + 1)
    ELSE Taken(Op("Sub", At(r, c)), p)

MulArm(p, r, c) ==
    IF Peek(p) = "=" THEN Taken(Op("MulEq", Plus(r, c, 1)), p + 1)
    ELSE Taken(Op("Mul", At(r, c)), p)

\* the '/' arm when the next character opens no comment
DivArm(p, r, c) ==
    IF Peek(p) = "=" THEN Taken(Op("DivEq", Plus(r, c, 1)), p + 1)
    ELSE Taken(Op("Div", At(r, c)), p)

EqArm(p, r, c) ==
    IF Peek(p) = "=" THEN Taken(Op("EqEq", Plus(r, c, 1)), p + 1)
    ELSE IF Peek(p) = ">" THEN Taken(Op("FatArrow", Plus(r, c, 1)), p + 1)
    ELSE Taken(Op("Eq", At(r, c)), p)

NotArm(p, r, c) ==
    IF Peek(p) = "=" THEN Taken(Op("NotEq", Plus(r, c, 1)), p + 1)
    ELSE Taken(Op("Not", At(r, c)), p)

OrArm(p, r, c) ==
    IF Peek(p) = "=" THEN Taken(Op("OrEq", Plus(r, c, 1)), p + 1)
    ELSE IF Peek(p) = "|" THEN Taken(Op("OrOr", Plus(r, c, 1)), p + 1)
    ELSE Taken(Op("Or", At(r, c)), p)

AndArm(p, r, c) ==
    IF Peek(p) = "=" THEN Taken(Op("AndEq", Plus(r, c, 1)), p + 1)
    ELSE IF Peek(p) = "&" THEN Taken(Op("AndAnd", Plus(r, c, 1)), p + 1)
    ELSE Taken(Op("And", At(r, c)), p)

XorArm(p, r, c) ==
    IF Peek(p) = "=" THEN Taken(Op("XorEq", Plus(r, c, 1)), p + 1)
    ELSE Taken(Op("Xor", At(r, c)), p)

ModArm(p, r, c) ==
    IF Peek(p) = "=" THEN Taken(Op("ModEq", Plus(r, c, 1)), p + 1)
    ELSE Taken(Op("Mod", At(r, c)), p)

\* output.push(cur), then the `col += 1` that ends the iteration
Operator(ch, t) ==
    /\ InLoop
    /\ Cur = ch
    /\ Push(t.tok)
    /\ pos' = t.pos
    /\ col' = col + 1
    /\ UNCHANGED <<input, row, pc, err>>

Lt == Operator("<", LtArm(pos + 1, row, col))
Gt == Operator(">", GtArm(pos + 1, row, col))
Add == Operator("+", AddArm(pos + 1, row, col))
Sub == Operator("-", SubArm(pos + 1, row, col))
Mul == Operator("*", MulArm(pos + 1, row, col))
Eq == Operator("=", EqArm(pos + 1, row, col))
Not == Operator("!", NotArm(pos + 1, row, col))
Or == Operator("|", OrArm(pos + 1, row, col))
And == Operator("&", AndArm(pos + 1, row, col))
Xor == Operator("^", XorArm(pos + 1, row, col))
Mod == Operator("%", ModArm(pos + 1, row, col))

Div ==
    /\ Peek(pos + 1) \notin {"/", "*"}
    /\ Operator("/", DivArm(pos + 1, row, col))

(***************************************************************************)
(* '/' then '/': the loop yields characters until it peeks '\n' or the     *)
(* end; `continue` skips the `col += 1`.                                   *)
(***************************************************************************)
\* LineLoop that also yields the '\n' that ends the comment
RECURSIVE LineLoopTakesNewline(_)
LineLoopTakesNewline(p) ==
    IF Peek(p) = "\n" THEN p + 1
    ELSE IF Peek(p) = NoChar THEN p
    ELSE LineLoopTakesNewline(p + 1)

\* a line-comment loop that gives back the `/` and consumes nothing
LineLoopNoProgress(p) == p - 1

RECURSIVE LineLoop(_)
LineLoop(p) ==
    IF Peek(p) = "\n" THEN p
    ELSE IF Peek(p) = NoChar THEN p
    ELSE LineLoop(p + 1)

LineComment ==
    /\ InLoop
    /\ Cur = "/"
    /\ Peek(pos + 1) = "/"
    /\ pos' = LineLoop(pos + 1)
    /\ UNCHANGED <<input, row, col, output, starts, pc, err>>

(***************************************************************************)
(* '/' then '*': each turn of the loop evaluates                           *)
(* (chars.next(), chars.peek()); it breaks on ('*', '/') with the '/' only *)
(* peeked, goes on when both are Some, and panics otherwise.  The first    *)
(* chars.next() yields the opener's own '*'.                               *)
(***************************************************************************)
RECURSIVE BlockLoop(_)
BlockLoop(p) ==
    LET n == Peek(p)
        k == Peek(p + 1)
    IN IF n = "*" /\ k = "/" THEN [closed |-> TRUE, pos |-> p + 1]
       ELSE IF n # NoChar /\ k # NoChar THEN BlockLoop(p + 1)
       ELSE [closed |-> FALSE, pos |-> IF n = NoChar THEN p ELSE p + 1]

BlockComment ==
    /\ InLoop
    /\ Cur = "/"
    /\ Peek(pos + 1) = "*"
    /\ LET b == BlockLoop(pos + 1)
       IN /\ pos' = b.pos
          /\ IF b.closed
             THEN UNCHANGED <<output, starts, pc, err>>
             ELSE Abort(Panic("comment block not terminated", row, col, NoChar))
    /\ UNCHANGED <<input, row, col>>

(***************************************************************************)
(* `_ => panic!("ERROR: unknown char ...")`                                *)
(***************************************************************************)
Recognized ==
    {" ", "\n", "\t", "_", Quote, "(", ")", "{", "}",
     "<", ">", "+", "-", "*", "/", "=", "!", "|", "&", "^", "%"}
        \cup Letters \cup Digits

Unknown ==
    /\ InLoop
    /\ Cur \notin Recognized
    /\ Abort(Panic("unknown char", row, col, Cur))
    /\ pos' = pos + 1
    /\ UNCHANGED <<input, row, col>>

(***************************************************************************)
(* End of input: push Eof and return output.                               *)
(***************************************************************************)
\* Finish returning output without the Eof push
FinishNoEof ==
    /\ pc = "scan"
    /\ pos = Len(input)
    /\ starts' = Append(starts, Len(input) + 1)
    /\ pc' = "done"
    /\ UNCHANGED <<input, pos, row, col, output, err>>

Finish ==
    /\ pc = "scan"
    /\ pos = Len(input)
    /\ output' = Append(output, Token("Eof", At(row, col), <<>>))
    /\ starts' = Append(starts, Len(input) + 1)
    /\ pc' = "done"
    /\ UNCHANGED <<input, pos, row, col, err>>

Next ==
    \/ Whitespace
    \/ Identifier
    \/ NumLiteral
    \/ StrLiteral
    \/ Delimiter
    \/ Lt
    \/ Gt
    \/ Add
    \/ Sub
    \/ Mul
    \/ Div
    \/ LineComment
    \/ BlockComment
    \/ Eq
    \/ Not
    \/ Or
    \/ And
    \/ Xor
    \/ Mod
    \/ Unknown
    \/ Finish

Spec == Init /\ [][Next]_vars

(***************************************************************************)
(* Vocabulary of the properties.                                           *)
(***************************************************************************)
\* (row, col) pairs in lexicographic order
LexLt(a, b) == a[1] < b[1] \/ (a[1] = b[1] /\ a[2] < b[2])
LexLe(a, b) == a = b \/ LexLt(a, b)

Kinds(toks) == [i \in 1..Len(toks) |-> toks[i].kind]

Min(S) == CHOOSE x \in S : \A y \in S : x <= y

\* the number of '\n' among the first i - 1 characters of the input
NewlinesBefore(i) == Cardinality({k \in 1..(i - 1) : input[k] = "\n"})

\* characters a and b stand at input[i], input[i + 1]
PairAt(i, a, b) == i >= 1 /\ i + 1 <= Len(input) /\ input[i] = a /\ input[i + 1] = b

\* The first `/*` of the input, when everything before it is recognized
\* characters with no string literal and no comment: it opens a block
\* comment under every reading of the scan rules.
BlockOpens == {i \in 1..Len(input) : PairAt(i, "/", "*")}
FirstOpen == Min(BlockOpens)
OpensBlockComment ==
    /\ BlockOpens # {}
    /\ \A k \in 1..(FirstOpen - 1) :
          /\ input[k] \in Recognized \ {Quote}
          /\ ~PairAt(k, "/", "/")

\* the `*/` pairs after the two opener characters
Closes == {j \in (FirstOpen + 2)..Len(input) : PairAt(j, "*", "/")}
FirstClose == Min(Closes)

(***************************************************************************)
(* C1.  Block comments emit no token: when the input's block comment is    *)
(* closed, no token of the returned sequence starts on a character of the  *)
(* comment, from its `/` `*` through the `*` `/` that closes it.           *)
(* The code leaves the closing `/` to the main loop, which scans it as an  *)
(* operator.                                                               *)
(***************************************************************************)
C1_BlockCommentEmitsNoToken ==
    (pc = "done" /\ OpensBlockComment /\ Closes # {})
        => \A k \in 1..Len(starts) : starts[k] \notin FirstOpen..(FirstClose + 1)

(***************************************************************************)
(* C2.  Newline resets the column to the line-initial value: whenever the  *)
(* main loop is about to take the first character of a line, col = 1.      *)
(***************************************************************************)
C2_LineStartsAtColumnOne ==
    (InLoop /\ (pos = 0 \/ input[pos] = "\n")) => col = 1

(***************************************************************************)
(* C3.  Token spans are ordered and never overlap: in a returned sequence  *)
(* every token starts no later than it ends, and ends strictly before the  *)
(* next token starts, in (row, col) lexicographic order.                   *)
(***************************************************************************)
C3_SpansOrdered ==
    pc = "done" =>
        \A i \in 1..Len(output) :
            /\ LexLe(output[i].pos.start, output[i].pos.end)
            /\ i < Len(output) =>
                  LexLt(output[i].pos.end, output[i + 1].pos.start)

(***************************************************************************)
(* C4.  The column advances by one per consumed character: two tokens      *)
(* whose first characters lie on the same input line have start columns    *)
(* that differ by the number of characters between those first characters. *)
(***************************************************************************)
SameLine(i, j) == \A k \in i..(j - 1) : input[k] # "\n"

C4_ColumnPerCharacter ==
    \A i, j \in 1..Len(output) :
        (/\ i < j
         /\ output[i].kind # "Eof" /\ output[j].kind # "Eof"
         /\ SameLine(starts[i], starts[j]))
            => output[j].pos.start[2] - output[i].pos.start[2]
                   = starts[j] - starts[i]

(***************************************************************************)
(* C5.  The row advances on every consumed newline: the start row of every *)
(* token, Eof included, is 1 plus the number of '\n' before its first      *)
(* character, newlines inside string literals and block comments included. *)
(***************************************************************************)
C5_RowCountsNewlines ==
    \A k \in 1..Len(output) :
        output[k].pos.start[1] = 1 + NewlinesBefore(starts[k])

(***************************************************************************)
(* C6.  An unterminated block comment always fails: when a `/*` opens a    *)
(* block comment and no `*/` follows the two opener characters, the scan   *)
(* ends in the comment-not-terminated panic and returns nothing.           *)
(***************************************************************************)
C6_UnterminatedBlockCommentFails ==
    (pc # "scan" /\ OpensBlockComment /\ Closes = {})
        => /\ pc = "panic"
           /\ err.kind = "comment block not terminated"
           /\ output = <<>>

(***************************************************************************)
(* C7.  Operator scanning is longest-match: whenever the main loop takes   *)
(* an operator character that opens no comment, the iteration pushes       *)
(* exactly one token, of the kind of the longest operator lexeme that is a *)
(* prefix of the remaining input, and consumes exactly that lexeme; also   *)
(* when the lexeme ends the input.                                         *)
(***************************************************************************)
OperatorChars == {"<", ">", "+", "-", "*", "/", "=", "!", "|", "&", "^", "%"}

\* lex is a prefix of the input from index i on
PrefixAt(lex, i) ==
    /\ i + Len(lex) - 1 <= Len(input)
    /\ \A k \in 1..Len(lex) : input[i + k - 1] = lex[k]

LongestOperator(i) ==
    CHOOSE m \in OperatorTable :
        /\ PrefixAt(m.lex, i)
        /\ \A n \in OperatorTable : PrefixAt(n.lex, i) => Len(n.lex) <= Len(m.lex)

AtOperator ==
    /\ InLoop
    /\ Cur \in OperatorChars
    /\ ~(Cur = "/" /\ Peek(pos + 1) \in {"/", "*"})

C7_LongestMatch ==
    [][AtOperator =>
          LET m == LongestOperator(pos + 1)
          IN /\ pc' = "scan"
             /\ Len(output') = Len(output) + 1
             /\ output'[Len(output')].kind = m.kind
             /\ SubSeq(output', 1, Len(output)) = output
             /\ pos' = pos + Len(m.lex)]_vars

\* `<<=` as the last characters of the input was scanned as one LShiftEq
C7_Witness ==
    /\ pc = "scan"
    /\ Len(input) >= 4
    /\ pos = Len(input)
    /\ SubSeq(input, Len(input) - 2, Len(input)) = <<"<", "<", "=">>
    /\ output[Len(output)].kind = "LShiftEq"

(***************************************************************************)
(* C8.  An input made of multi-character operator lexemes separated by     *)
(* single spaces scans, without panic, to one token per lexeme, of the     *)
(* lexeme's kind and in the lexemes' order, followed by Eof.               *)
(***************************************************************************)
RECURSIVE SplitOnSpace(_, _)
SplitOnSpace(s, piece) ==
    IF s = <<>> THEN <<piece>>
    ELSE IF Head(s) = " " THEN <<piece>> \o SplitOnSpace(Tail(s), <<>>)
    ELSE SplitOnSpace(Tail(s), Append(piece, Head(s)))

Lexemes == SplitOnSpace(input, <<>>)

KindOfLexeme(lex) == (CHOOSE m \in OperatorTable : m.lex = lex).kind

OnlyMultiOps ==
    \A i \in 1..Len(Lexemes) : \E k \in 1..Len(MultiOps) : Lexemes[i] = MultiOps[k]

C8_MultiOperatorKinds ==
    (pc # "scan" /\ OnlyMultiOps) =>
        /\ pc = "done"
        /\ Kinds(output)
               = [i \in 1..Len(Lexemes) |-> KindOfLexeme(Lexemes[i])] \o <<"Eof">>

\* the input of the operators test was scanned to its 22 tokens and Eof
C8_Witness ==
    /\ pc = "done"
    /\ input = TestOperatorsInput
    /\ Kinds(output) = MultiKinds \o <<"Eof">>

(***************************************************************************)
(* C9.  Every returned sequence ends in exactly one Eof: its last token is *)
(* Eof, no earlier token is, and the empty input returns Eof alone.        *)
(***************************************************************************)
C9_ExactlyOneEof ==
    pc = "done" =>
        /\ Len(output) >= 1
        /\ output[Len(output)].kind = "Eof"
        /\ \A i \in 1..(Len(output) - 1) : output[i].kind # "Eof"
        /\ input = <<>> => Len(output) = 1

\* a scan that pushed tokens has returned them with Eof behind them
C9_Witness ==
    /\ pc = "done"
    /\ Len(output) >= 3
    /\ output[Len(output)].kind = "Eof"

(***************************************************************************)
(* C10.  An unterminated string literal always fails: whenever the main    *)
(* loop takes a `"` and no `"` follows before the end of the input, the    *)
(* iteration ends in the string-not-terminated panic and nothing is        *)
(* returned, the tokens pushed before included.                            *)
(***************************************************************************)
AtUnterminatedString ==
    /\ InLoop
    /\ Cur = Quote
    /\ \A k \in (pos + 2)..Len(input) : input[k] # Quote

C10_UnterminatedStringFails ==
    [][AtUnterminatedString =>
          /\ pc' = "panic"
          /\ err'.kind = "string literal not terminated"
          /\ output' = <<>>]_vars

\* the scan of `1 "a...` aborted after NumLiteral("1") had been pushed
C10_Witness ==
    /\ pc = "panic"
    /\ err.kind = "string literal not terminated"
    /\ Len(input) >= 4
    /\ SubSeq(input, 1, 4) = <<"1", " ", Quote, "a">>
    /\ output = <<>>

(***************************************************************************)
(* C11.  An unrecognized character fails with its location: when the first *)
(* unrecognized character of the input follows only recognized characters  *)
(* that open no string literal and no comment, the scan ends in the        *)
(* unknown-char panic, returns nothing, and the panic names that character *)
(* with the row and column it has in the input.                            *)
(***************************************************************************)
Unrecognized == {i \in 1..Len(input) : input[i] \notin Recognized}
FirstUnrecognized == Min(Unrecognized)

\* the index of the last '\n' before index i, 0 when there is none
LastNewlineBefore(i) ==
    LET nl == {k \in 1..(i - 1) : input[k] = "\n"}
    IN IF nl = {} THEN 0 ELSE CHOOSE k \in nl : \A j \in nl : j <= k

\* the 1-based (row, col) of input[i] in the text
TrueRow(i) == 1 + NewlinesBefore(i)
TrueCol(i) == i - LastNewlineBefore(i)

UnrecognizedInPlainText ==
    /\ Unrecognized # {}
    /\ \A k \in 1..(FirstUnrecognized - 1) : input[k] \notin {Quote, "/"}

C11_UnknownCharLocated ==
    (pc # "scan" /\ UnrecognizedInPlainText) =>
        /\ pc = "panic"
        /\ output = <<>>
        /\ err = Panic("unknown char", TrueRow(FirstUnrecognized),
                       TrueCol(FirstUnrecognized), input[FirstUnrecognized])

(***************************************************************************)
(* C12.  Round-trip span coverage: for a returned sequence, reading the    *)
(* input from each token's span start to its span end, in token order, and *)
(* concatenating gives the input without its whitespace.  Stated for       *)
(* inputs with no string literal and no comment, where the content to      *)
(* reconstruct is every character that is not a space, tab or newline.     *)
(***************************************************************************)
\* the index in the input of the 1-based position (r, c); past the end of
\* the input when the text has no row r
IndexOf(rc) ==
    LET first == IF rc[1] = 1 THEN {1}
                 ELSE {k + 1 : k \in {j \in 1..Len(input) :
                                        /\ input[j] = "\n"
                                        /\ NewlinesBefore(j) = rc[1] - 2}}
    IN IF first = {} THEN Len(input) + 1
       ELSE (CHOOSE k \in first : TRUE) + rc[2] - 1

\* the characters of the input a span covers, both ends included
SpanText(position) ==
    LET lo == IndexOf(position.start)
        hi == IndexOf(position.end)
    IN IF lo > Len(input) THEN <<>>
       ELSE SubSeq(input, lo, IF hi > Len(input) THEN Len(input) ELSE hi)

RECURSIVE SpanTexts(_)
SpanTexts(toks) ==
    IF toks = <<>> THEN <<>>
    ELSE IF Head(toks).kind = "Eof" THEN SpanTexts(Tail(toks))
    ELSE SpanText(Head(toks).pos) \o SpanTexts(Tail(toks))

IsContent(c) == c \notin {" ", "\t", "\n"}

PlainInput == \A k \in 1..Len(input) : input[k] \notin {Quote, "/"}

C12_SpansReconstructInput ==
    (pc = "done" /\ PlainInput) => SpanTexts(output) = SelectSeq(input, IsContent)

(***************************************************************************)
(* C13.  Line comments emit no token and do not swallow the line break:    *)
(* whenever the main loop takes a `/` followed by `/`, the iteration       *)
(* consumes every character up to, not including, the next '\n' or the end *)
(* of the input, whatever those characters are; it pushes no token, raises *)
(* no panic and leaves row and col alone.  The '\n' is then taken by the   *)
(* main loop, which increments row and pushes nothing.                     *)
(***************************************************************************)
AtLineComment == InLoop /\ Cur = "/" /\ Peek(pos + 1) = "/"

\* the index of the first '\n' after index i, Len(input) + 1 without one
LineEnd(i) == Min({k \in (i + 1)..Len(input) : input[k] = "\n"} \cup {Len(input) + 1})

C13_LineCommentSkipped ==
    [][/\ AtLineComment =>
            /\ pos' = LineEnd(pos + 1) - 1
            /\ pc' = "scan"
            /\ err' = err
            /\ output' = output
            /\ row' = row
            /\ col' = col
       /\ (InLoop /\ Cur = "\n") =>
            /\ row' = row + 1
            /\ output' = output
            /\ pos' = pos + 1]_vars

\* `1 // ab\n2` was scanned to NumLiteral("1") on row 1, NumLiteral("2") on
\* row 2 and Eof
C13_Witness ==
    /\ pc = "done"
    /\ input = <<"1", " ", "/", "/", " ", "a", "b", "\n", "2">>
    /\ Kinds(output) = <<"NumLiteral", "NumLiteral", "Eof">>
    /\ output[1].val = <<"1">> /\ output[1].pos.start[1] = 1
    /\ output[2].val = <<"2">> /\ output[2].pos.start[1] = 2

(***************************************************************************)
(* C14.  An input of whitespace only (spaces, tabs, newlines; the empty    *)
(* input included) scans without panic and returns exactly one token, Eof. *)
(***************************************************************************)
OnlyWhitespace == \A k \in 1..Len(input) : input[k] \in {" ", "\t", "\n"}

C14_WhitespaceOnlyGivesEof ==
    OnlyWhitespace =>
        /\ pc # "panic"
        /\ pc = "scan" => output = <<>>
        /\ pc = "done" => Len(output) = 1 /\ output[1].kind = "Eof"

\* a space, a tab and a newline were scanned to Eof alone
C14_Witness ==
    /\ pc = "done"
    /\ input = <<" ", "\t", "\n">>
    /\ Kinds(output) = <<"Eof">>

(***************************************************************************)
(* C15.  The scan of a finite input terminates.  tokenize is sequential    *)
(* code: while the main loop has an iteration to run, it runs it, which is *)
(* the weak fairness of Next.  Under it every scan reaches the returned    *)
(* state or a panic, every step that stays in the main loop has consumed   *)
(* at least one character, every inner loop ends at or after the character *)
(* it started from, and the cursor never passes the end of the input.      *)
(***************************************************************************)
FairSpec == Spec /\ WF_vars(Next)

InnerLoopsAdvance ==
    \A p \in (pos + 1)..Len(input) :
        /\ IdentLoop(p) \in p..Len(input)
        /\ NumLoop(p) \in p..Len(input)
        /\ StrLoop(p, col, <<>>).pos \in p..Len(input)
        /\ LineLoop(p) \in p..Len(input)
        /\ BlockLoop(p).pos \in p..Len(input)

C15_Terminates ==
    /\ [][pc' # "scan" \/ pos' > pos]_vars
    /\ [](pos <= Len(input) /\ (InLoop => InnerLoopsAdvance))
    /\ <>(pc # "scan")

\* the scan of `1 /* a\nb */ 2`, through the number, whitespace and
\* block-comment loops, has returned
C15_Witness ==
    /\ pc = "done"
    /\ input = <<"1", " ", "/", "*", " ", "a", "\n", "b", " ", "*", "/", " ", "2">>

(***************************************************************************)
(* C16 relates two scans of the same input; no formula of one behaviour of *)
(* this module states it.                                                  *)
(***************************************************************************)

(***************************************************************************)
(* C17.  A token's span has the extent of its lexeme: every pushed token   *)
(* other than Eof whose lexeme holds no newline ends on the row it starts  *)
(* on, and its end column is its start column plus the lexeme's length     *)
(* minus one.                                                              *)
(***************************************************************************)
LexemeLen(tok) ==
    IF tok.kind \in {"Identifier", "NumLiteral"} THEN Len(tok.val)
    ELSE IF tok.kind = "StrLiteral" THEN Len(tok.val) + 2
    ELSE IF tok.kind \in {"LParen", "RParen", "LBrace", "RBrace"} THEN 1
    ELSE Len((CHOOSE m \in OperatorTable : m.kind = tok.kind).lex)

C17_SpanExtent ==
    \A k \in 1..Len(output) :
        (/\ output[k].kind # "Eof"
         /\ \A i \in 1..Len(output[k].val) : output[k].val[i] # "\n")
            => /\ output[k].pos.end[1] = output[k].pos.start[1]
               /\ output[k].pos.end[2] - output[k].pos.start[2]
                      = LexemeLen(output[k]) - 1

(***************************************************************************)
(* C18.  Identifiers and numbers are scanned greedily: the payload of      *)
(* every Identifier is the input from the token's first character on, a    *)
(* letter or `_` followed by letters, digits and `_`, and the character    *)
(* after it, if any, is none of these; the payload of every NumLiteral is  *)
(* a non-empty run of digits of the input and the character after it, if   *)
(* any, is no digit.                                                       *)
(***************************************************************************)
IsWordChar(c) == c \in Letters \cup Digits \cup {"_"}

\* val is the input from index i on, and c is the character after it
Payload(val, i) == val # <<>> /\ val = SubSeq(input, i, i + Len(val) - 1)
CharAfter(val, i) == Peek(i + Len(val) - 1)

C18_MaximalMunch ==
    \A k \in 1..Len(output) :
        LET t == output[k]
        IN /\ t.kind = "Identifier" =>
                 /\ Payload(t.val, starts[k])
                 /\ t.val[1] \in Letters \cup {"_"}
                 /\ \A i \in 1..Len(t.val) : IsWordChar(t.val[i])
                 /\ ~IsWordChar(CharAfter(t.val, starts[k]))
           /\ t.kind = "NumLiteral" =>
                 /\ Payload(t.val, starts[k])
                 /\ \A i \in 1..Len(t.val) : t.val[i] \in Digits
                 /\ CharAfter(t.val, starts[k]) \notin Digits

\* `12ab` was scanned to NumLiteral("12"), Identifier("ab") and Eof
C18_Witness ==
    /\ pc = "done"
    /\ input = <<"1", "2", "a", "b">>
    /\ Kinds(output) = <<"NumLiteral", "Identifier", "Eof">>
    /\ output[1].val = <<"1", "2">>
    /\ output[2].val = <<"a", "b">>

(***************************************************************************)
(* C19.  String literals are raw: whenever the main loop takes a `"` that  *)
(* a later `"` closes, the iteration pushes exactly one StrLiteral whose   *)
(* payload is the characters strictly between the opening `"` and the      *)
(* first `"` after it, whatever they are (`//`, `/*`, newlines,            *)
(* backslashes, unrecognized characters), with no `"` among them; it       *)
(* raises no panic and the scan goes on right after the closing `"`.       *)
(***************************************************************************)
LaterQuotes == {k \in (pos + 2)..Len(input) : input[k] = Quote}

AtTerminatedString == InLoop /\ Cur = Quote /\ LaterQuotes # {}

C19_RawStrings ==
    [][AtTerminatedString =>
          LET q == Min(LaterQuotes)
              t == output'[Len(output')]
          IN /\ pc' = "scan"
             /\ err' = err
             /\ output' = Append(output, t)
             /\ t.kind = "StrLiteral"
             /\ t.val = SubSeq(input, pos + 2, q - 1)
             /\ \A i \in 1..Len(t.val) : t.val[i] # Quote
             /\ pos' = q]_vars

\* a string literal holding a newline and a backslash, and one holding a
\* comment opener and an unrecognized character, were scanned to their
\* payloads
C19_Witness ==
    /\ pc = "scan"
    /\ Len(output) = 1
    /\ output[1].kind = "StrLiteral"
    /\ output[1].val \in { <<"\n", "\\">>, <<"/", "@">>, <<"/", "*">> }
    /\ pos = Len(output[1].val) + 2

====
